---- MODULE Spec2Model ----
(***************************************************************************)
(* Model of the MQTT remote-control agent (src/mqtt_service.py):           *)
(*   - the command dispatch queue: on_message (delivery thread) and        *)
(*     command_worker / process_command (worker thread);                   *)
(*   - the process supervisor: start_main, stop_main,                      *)
(*     graceful_shutdown_unix, kill_process_tree.                          *)
(* A status string is modelled as the sequence of the fragments of the     *)
(* f-string that builds it, the category prefix being the first fragment.  *)
(***************************************************************************)
EXTENDS Integers, Naturals, Sequences, FiniteSets, TLC

\* ------------------------------------------------------------------ bounds
\* Messages delivered by a sender that uses every command name.
MaxMessages == 3
\* Messages a burst sender delivers beyond the soft admission threshold.
BurstExtra == 1
\* Direct calls of process_command made beside the worker thread, and the
\* messages delivered meanwhile.
MaxDirectCalls == 2
MaxDirectMessages == 2
\* Calls of start_main / stop_main made on the supervisor.
MaxOps == 3
\* Children spawned in one run.
MaxSpawns == 2
\* Lines a child writes to its output stream.
MaxLines == 1
\* Messages delivered in a run that ends with cleanup().
MaxCleanupMessages == 2

\* -------------------------------------------------------- program constants
\* on_message: if self.command_queue.qsize() >= 10
QUEUE_SOFT_LIMIT == 10
\* init_command_queue: Queue(maxsize = 50)
QUEUE_MAXSIZE == 50

need_time_command == {"start_main", "stop_main", "git_update", "checkUpdated"}

\* Command names a sender may put in a control message: the four heavyweight
\* names and one name the router does not know.
Commands == need_time_command \cup {"ping"}
\* A burst sender repeats an update request and an unknown command.
BurstCommands == {"git_update", "ping"}

Threads == {"worker", "direct"}

VARIABLES
    command_queue,   \* self.command_queue: sequence of queued command_dicts
    is_busy,         \* self.is_busy
    command_lock,    \* self.command_lock: "free" or the thread holding it
    pc,              \* position of each thread that may run process_command
    call,            \* per thread: the process_command call in progress / last finished
    msg,             \* the delivery thread: on_message call in progress / last finished
    sender,          \* the remote sender: command names it uses, messages left
    transport,       \* whether client.publish accepts the status topic or may raise
    direct_left,     \* direct calls of process_command still to be made
    enqueued,        \* tags of the commands put on the queue, in put order
    executed,        \* tags of the commands the worker passed to process_command
    is_running,      \* self.is_running
    process,         \* self.process: 0 (None) or the pid of the Popen handle
    output_thread,   \* self.output_thread: Unset or the pid it was started for
    relay,           \* per spawned child: the thread started to run stream_output
    procs,           \* the operating system's view: one record per spawned child
    sup_pc,          \* position of the thread calling start_main / stop_main
    op,              \* the start_main / stop_main call in progress / last finished
    ops_left,        \* supervisor calls still to be made
    shutdown_event,  \* self.shutdown_event is set
    clean,           \* the cleanup() call of the main thread
    git              \* a call of GitService.update(): its environment and progress

dvars == <<command_queue, is_busy, command_lock, pc, call, msg, sender,
           transport, direct_left, enqueued, executed>>
svars == <<is_running, process, output_thread, relay, procs, sup_pc, op, ops_left>>
cvars == <<shutdown_event, clean, git>>
vars == <<dvars, svars, cvars>>

\* ------------------------------------------------------------- status text
StatusBusyReject(c) == <<"busy:", "Cannot process ", c, " - system is currently busy">>
StatusBusyProcessing(c) == <<"busy:", "Processing ", c>>
StatusProcessError(c, e) == <<"error:", "Failed to process ", c, " - ", e>>
StatusCompleted(c) == <<"Command '", c, "' completed, system no longer busy">>
StatusQueueFull == <<"error:", "Command queue full - try again later">>
StatusQueueTimeout == <<"error:", "Failed to queue command - system busy">>

\* client.publish returns, or raises (paho raises ValueError on a topic it does
\* not accept, and status_topic defaults to ''); send_status has no handler
\* around the call, so the exception reaches the caller of send_status.
PublishOutcomes == IF transport = "accepts" THEN {"sent"} ELSE {"sent", "raises"}

\* send_status(status): the notices published, after a publish with outcome p
send_status(notices, status, p) == IF p = "sent" THEN Append(notices, status) ELSE notices

\* ------------------------------------------------------------------- queue
QueueGetLifo(q) == [item |-> q[Len(q)], rest |-> SubSeq(q, 1, Len(q) - 1)]

\* command_queue.get(): the oldest entry
QueueGet(q) == [item |-> Head(q), rest |-> Tail(q)]

\* ---------------------------------------------------------- GitService.update
\* the value of get_current_commit() when `git rev-parse` fails
None == "None"

\* what get_current_commit() can return before and after the pull
CommitsBefore == {None, "c1"}
CommitsAfter == {None, "c1", "c2"}

\* the dictionary update() returns (pull_output and pull_error left out)
GitResult(success, has_update, old, new, error) ==
    [success |-> success, has_update |-> has_update, old_commit |-> old,
     new_commit |-> new, error |-> error]

\* no update() has been called
NoResult == GitResult(FALSE, FALSE, "", "", "")

HasUpdateAlways(old, new) == TRUE

\* git_service.py line 173: has_update = cur_commit != new_commit
HasUpdate(old, new) == old # new

\* git_service.py lines 131-197: current commit, pull, new commit, comparison
GitUpdate(cur_commit, pull_success, new_commit) ==
    IF cur_commit = None
    THEN GitResult(FALSE, FALSE, "", "", "Failed to get current commit")
    ELSE IF ~pull_success
    THEN GitResult(FALSE, FALSE, cur_commit, cur_commit, "Git pull failed: ")
    ELSE IF new_commit = None
    THEN GitResult(FALSE, FALSE, cur_commit, cur_commit,
                   "Failed to get new commit after pull")
    ELSE GitResult(TRUE, HasUpdate(cur_commit, new_commit), cur_commit, new_commit, "")

\* the results update() can return to process_command
GitResults ==
    {GitUpdate(c, ok, n) : c \in CommitsBefore, ok \in BOOLEAN, n \in CommitsAfter}

\* what the update callback given to GitService does when it is called
Callbacks == {"none", "returns", "raises"}

\* stderr of a `git pull`
PullErrors == {"", "fatal: Not possible to fast-forward"}

\* the outcomes of the three git commands of one update() and the callback
GitEnvs == [cur_commit : CommitsBefore, pull_success : BOOLEAN, pull_error : PullErrors,
            new_commit : CommitsAfter, callback : Callbacks]

NoGit == [pc |-> "idle", env |-> [cur_commit |-> None, pull_success |-> FALSE,
                                  pull_error |-> "", new_commit |-> None,
                                  callback |-> "none"],
          result |-> NoResult, callbacks |-> 0, caught |-> 0]

\* git_service.py lines 133-144: the current commit, or the first failure
GitCurrent ==
    /\ git.pc = "idle"
    /\ git' = IF git.env.cur_commit = None
              THEN [git EXCEPT !.pc = "returned",
                               !.result = GitResult(FALSE, FALSE, "", "",
                                                    "Failed to get current commit")]
              ELSE [git EXCEPT !.pc = "pull"]
    /\ UNCHANGED <<dvars, svars, shutdown_event, clean>>

\* git_service.py lines 147-158: the pull, or the second failure
GitPull ==
    /\ git.pc = "pull"
    /\ git' = IF ~git.env.pull_success
              THEN [git EXCEPT !.pc = "returned",
                               !.result = GitResult(FALSE, FALSE, git.env.cur_commit,
                                                    git.env.cur_commit,
                                                    "Git pull failed: ")]
              ELSE [git EXCEPT !.pc = "new_commit"]
    /\ UNCHANGED <<dvars, svars, shutdown_event, clean>>

\* git_service.py lines 161-188: the new commit, or the third failure; otherwise
\* the comparison and the result
GitNewCommit ==
    /\ git.pc = "new_commit"
    /\ git' = IF git.env.new_commit = None
              THEN [git EXCEPT !.pc = "returned",
                               !.result = GitResult(FALSE, FALSE, git.env.cur_commit,
                                                    git.env.cur_commit,
                                                    "Failed to get new commit after pull")]
              ELSE [git EXCEPT !.pc = "callback",
                               !.result = GitResult(TRUE,
                                                    HasUpdate(git.env.cur_commit,
                                                              git.env.new_commit),
                                                    git.env.cur_commit,
                                                    git.env.new_commit, "")]
    /\ UNCHANGED <<dvars, svars, shutdown_event, clean>>

\* git_service.py lines 191-197: the callback, if one is set, is called; what it
\* raises is caught and logged; then the result is returned
GitCallback ==
    /\ git.pc = "callback"
    /\ git' = [git EXCEPT !.pc = "returned",
                          !.callbacks = IF git.env.callback = "none" THEN @ ELSE @ + 1,
                          !.caught = IF git.env.callback = "raises" THEN @ + 1 ELSE @]
    /\ UNCHANGED <<dvars, svars, shutdown_event, clean>>

NoCall == [command |-> "none", tag |-> 0, notices |-> <<>>, handler |-> "none",
           gate_busy |-> FALSE, rejected |-> FALSE, sets |-> 0, clears |-> 0,
           err |-> "none", result |-> "none", git |-> NoResult]

NewCall(c, tag) == [NoCall EXCEPT !.command = c, !.tag = tag, !.result = "running"]

NoMsg == [pc |-> "idle", command |-> "none", tag |-> 0, outcome |-> "none",
          notices |-> <<>>, raised |-> FALSE]

\* --------------------------------------------------------------- on_message
QueueSoftFullAbove(q) == Len(q) > QUEUE_SOFT_LIMIT

\* line 97: self.command_queue.qsize() >= 10
QueueSoftFull(q) == Len(q) >= QUEUE_SOFT_LIMIT

\* What the client's network thread does with an exception that leaves the
\* on_message callback is the client library's business: it goes on delivering
\* ("idle") or it ends ("dead").
AfterCallbackRaised == {"idle", "dead"}

\* lines 92-100: decode the payload, check the queue size. Past the threshold the
\* code calls self._send_status, a name MqttService does not define: the call
\* raises AttributeError before anything is published and on_message ends.
OnMessageReceive ==
    /\ UNCHANGED <<svars, cvars, transport>>
    /\ msg.pc = "idle"
    /\ ~clean.closed
    /\ sender.remaining > 0
    /\ \E c \in sender.commands :
         LET m == [NoMsg EXCEPT !.command = c, !.tag = msg.tag + 1]
         IN  IF QueueSoftFull(command_queue)
             THEN \E after \in AfterCallbackRaised :
                    msg' = [m EXCEPT !.pc = after, !.outcome = "rejected", !.raised = TRUE]
             ELSE msg' = [m EXCEPT !.pc = "put"]
    /\ sender' = [sender EXCEPT !.remaining = @ - 1]
    /\ UNCHANGED <<command_queue, is_busy, command_lock, pc, call, direct_left,
                   enqueued, executed>>

PutWaitsForWorker == pc["worker"] = "poll"

\* line 105: put(timeout=1.0) proceeds whatever the worker thread is doing
PutReady == TRUE

\* lines 103-109: put with a timeout of 1.0; on Full (bare except) report and drop
OnMessagePut ==
    /\ UNCHANGED <<svars, cvars, transport>>
    /\ msg.pc = "put"
    /\ PutReady
    /\ IF Len(command_queue) < QUEUE_MAXSIZE
       THEN /\ command_queue' = Append(command_queue,
                                       [command |-> msg.command, tag |-> msg.tag])
            /\ enqueued' = Append(enqueued, msg.tag)
            /\ msg' = [msg EXCEPT !.pc = "idle", !.outcome = "queued"]
       ELSE /\ \E p \in PublishOutcomes, after \in AfterCallbackRaised :
                 msg' = [msg EXCEPT !.pc = IF p = "sent" THEN "idle" ELSE after,
                                    !.outcome = "timeout",
                                    !.notices = send_status(@, StatusQueueTimeout, p),
                                    !.raised = (p = "raises")]
            /\ UNCHANGED <<command_queue, enqueued>>
    /\ UNCHANGED <<is_busy, command_lock, pc, call, sender, direct_left, executed>>

\* ------------------------------------------------------------ command_worker
\* lines 125-129: the loop test, then get the next entry and hand it to
\* process_command. At "poll" the worker is before the loop test, at "get" it
\* has passed the test and waits in get(timeout = 0.1).
WorkerGet ==
    /\ UNCHANGED <<svars, cvars, transport>>
    /\ \/ pc["worker"] = "poll" /\ ~shutdown_event
       \/ pc["worker"] = "get"
    /\ command_queue # <<>>
    /\ LET g == QueueGet(command_queue)
       IN  /\ command_queue' = g.rest
           /\ call' = [call EXCEPT !["worker"] = NewCall(g.item.command, g.item.tag)]
           /\ executed' = Append(executed, g.item.tag)
    /\ pc' = [pc EXCEPT !["worker"] = "gate"]
    /\ UNCHANGED <<is_busy, command_lock, msg, sender, direct_left, enqueued>>

AfterCommandDies(err) == IF err = "none" THEN "poll" ELSE "exited"

\* lines 124-136: whatever process_command did, the worker is back at the loop test
AfterCommand(err) == "poll"

\* line 131 (process_command returned: task_done) or lines 135-136 (it raised:
\* the exception is logged); either way the loop goes on
WorkerNext ==
    /\ UNCHANGED <<svars, cvars, transport>>
    /\ pc["worker"] = "done"
    /\ pc' = [pc EXCEPT !["worker"] = AfterCommand(call["worker"].err)]
    /\ UNCHANGED <<command_queue, is_busy, command_lock, call, msg, sender,
                   direct_left, enqueued, executed>>

\* line 125: the loop test finds shutdown_event set: command_worker returns. A
\* worker inside get() comes to the test when get() times out on an empty queue
\* (lines 133-134).
WorkerExit ==
    /\ UNCHANGED <<svars, cvars, transport>>
    /\ \/ pc["worker"] = "poll"
       \/ pc["worker"] = "get" /\ command_queue = <<>>
    /\ shutdown_event
    /\ pc' = [pc EXCEPT !["worker"] = "exited"]
    /\ UNCHANGED <<command_queue, is_busy, command_lock, call, msg, sender,
                   direct_left, enqueued, executed>>

\* ----------------------------------------------------------- process_command
GateNever(busy, c) == FALSE

\* line 142: self.is_busy and command in self.need_time_command
Gate(busy, c) == busy /\ c \in need_time_command

\* lines 142-145: the busy gate, outside the try block
PcGate(t) ==
    /\ UNCHANGED <<svars, cvars, transport>>
    /\ pc[t] = "gate"
    /\ LET c == call[t].command
       IN  IF Gate(is_busy, c)
           THEN \E p \in PublishOutcomes :
                  /\ call' = [call EXCEPT ![t].notices = send_status(@, StatusBusyReject(c), p),
                                          ![t].gate_busy = is_busy,
                                          ![t].rejected = TRUE,
                                          ![t].result = IF p = "sent" THEN "returned"
                                                                      ELSE "raised"]
                  /\ pc' = [pc EXCEPT ![t] = "done"]
           ELSE /\ call' = [call EXCEPT ![t].gate_busy = is_busy]
                /\ pc' = [pc EXCEPT ![t] = "acquire"]
    /\ UNCHANGED <<command_queue, is_busy, command_lock, msg, sender, direct_left,
                   enqueued, executed>>

\* line 148: with self.command_lock
PcAcquire(t) ==
    /\ UNCHANGED <<svars, cvars, transport>>
    /\ pc[t] = "acquire"
    /\ command_lock = "free"
    /\ command_lock' = t
    /\ pc' = [pc EXCEPT ![t] = "mark"]
    /\ UNCHANGED <<command_queue, is_busy, call, msg, sender, direct_left,
                   enqueued, executed>>

\* lines 150-154: a heavyweight command sets is_busy and reports it; a publish
\* that raises leaves the with block (releasing the lock) for the except clause
PcMark(t) ==
    /\ UNCHANGED <<svars, cvars, transport>>
    /\ pc[t] = "mark"
    /\ LET c == call[t].command
       IN  IF c \in need_time_command
           THEN /\ is_busy' = TRUE
                /\ \E p \in PublishOutcomes :
                     /\ call' = [call EXCEPT
                                   ![t].notices = send_status(@, StatusBusyProcessing(c), p),
                                   ![t].sets = @ + 1,
                                   ![t].err = IF p = "sent" THEN "none" ELSE "publish"]
                     /\ pc' = [pc EXCEPT ![t] = IF p = "sent" THEN "dispatch" ELSE "except"]
                     /\ command_lock' = IF p = "sent" THEN command_lock ELSE "free"
           ELSE /\ pc' = [pc EXCEPT ![t] = "dispatch"]
                /\ UNCHANGED <<is_busy, call, command_lock>>
    /\ UNCHANGED <<command_queue, msg, sender, direct_left, enqueued, executed>>

\* What the dispatched handler can do: the start and stop branches are `pass`,
\* the unknown branch logs; the update branch builds a GitService and calls
\* update(), a call into code that may raise.
HandlerOutcomes(c) ==
    IF c \in {"git_update", "checkUpdated"} THEN {"returns", "raises"} ELSE {"returns"}

\* lines 156-166
HandlerOf(c) ==
    CASE c = "start_main" -> "pass_start"
      [] c = "stop_main" -> "pass_stop"
      [] c \in {"git_update", "checkUpdated"} -> "git_update"
      [] OTHER -> "unknown"

\* lines 156-166, then the end of the with block: the lock is released. The
\* dictionary git_service.update() returns is not bound to any name (line 163).
PcDispatch(t) ==
    /\ UNCHANGED <<svars, cvars, transport>>
    /\ pc[t] = "dispatch"
    /\ \E h \in HandlerOutcomes(call[t].command),
          r \in IF HandlerOf(call[t].command) = "git_update" THEN GitResults
                ELSE {NoResult} :
         /\ call' = [call EXCEPT ![t].handler = HandlerOf(call[t].command),
                                 ![t].git = IF h = "returns" THEN r ELSE NoResult,
                                 ![t].err = IF h = "returns" THEN "none" ELSE "handler"]
         /\ pc' = [pc EXCEPT ![t] = IF h = "returns" THEN "finally" ELSE "except"]
    /\ command_lock' = "free"
    /\ UNCHANGED <<command_queue, is_busy, msg, sender, direct_left, enqueued, executed>>

\* lines 168-170: the exception is caught and reported; the report itself is a
\* publish, and one that raises leaves a new exception pending
PcExcept(t) ==
    /\ UNCHANGED <<svars, cvars, transport>>
    /\ pc[t] = "except"
    /\ \E p \in PublishOutcomes :
         call' = [call EXCEPT
                    ![t].notices = send_status(@, StatusProcessError(call[t].command,
                                                                     call[t].err), p),
                    ![t].err = IF p = "sent" THEN "caught" ELSE "pending"]
    /\ pc' = [pc EXCEPT ![t] = "finally"]
    /\ UNCHANGED <<command_queue, is_busy, command_lock, msg, sender, direct_left,
                   enqueued, executed>>

FinallyKeepBusy(busy) == busy

\* line 174: self.is_busy = False
FinallyClear(busy) == FALSE

FinallyReportsAlways(busy) == TRUE

\* line 173: if self.is_busy
FinallyReports(busy) == busy

\* lines 172-175: the finally block
PcFinally(t) ==
    /\ UNCHANGED <<svars, cvars, transport>>
    /\ pc[t] = "finally"
    /\ LET c == call[t].command
       IN  IF FinallyReports(is_busy)
           THEN /\ is_busy' = FinallyClear(is_busy)
                /\ \E p \in PublishOutcomes :
                     call' = [call EXCEPT
                                ![t].notices = send_status(@, StatusCompleted(c), p),
                                ![t].clears = @ + 1,
                                ![t].result = IF p = "sent" /\ call[t].err # "pending"
                                              THEN "returned" ELSE "raised"]
           ELSE /\ call' = [call EXCEPT
                              ![t].result = IF call[t].err # "pending"
                                            THEN "returned" ELSE "raised"]
                /\ UNCHANGED is_busy
    /\ pc' = [pc EXCEPT ![t] = "done"]
    /\ UNCHANGED <<command_queue, command_lock, msg, sender, direct_left,
                   enqueued, executed>>

\* A caller other than the worker thread: process_command is a public method and
\* takes the lock because "direct calls could exist".
DirectCall ==
    /\ UNCHANGED <<svars, cvars, transport>>
    /\ pc["direct"] = "idle"
    /\ direct_left > 0
    /\ \E c \in Commands :
         call' = [call EXCEPT !["direct"] = NewCall(c, 0)]
    /\ pc' = [pc EXCEPT !["direct"] = "gate"]
    /\ direct_left' = direct_left - 1
    /\ UNCHANGED <<command_queue, is_busy, command_lock, msg, sender, enqueued, executed>>

DirectReturn ==
    /\ UNCHANGED <<svars, cvars, transport>>
    /\ pc["direct"] = "done"
    /\ pc' = [pc EXCEPT !["direct"] = "idle"]
    /\ UNCHANGED <<command_queue, is_busy, command_lock, call, msg, sender,
                   direct_left, enqueued, executed>>

ProcessCommand ==
    \E t \in Threads : PcGate(t) \/ PcAcquire(t) \/ PcMark(t) \/ PcDispatch(t)
                         \/ PcExcept(t) \/ PcFinally(t)

\* --------------------------------------------------------- the child process
\* A spawned child as the operating system sees it: it runs, or it has exited and
\* waits to be reaped (a zombie still has its pid and its process group), or it
\* has been reaped. on_int / on_term say what it does on SIGINT / SIGTERM. It may
\* have one descendant in its process group (d_state "none": it has none).
Reactions == {"exit", "ignore"}

\* d_kind: "none" (no descendant), "exit" (a descendant that exits on SIGINT and
\* on SIGTERM), "ignore" (a descendant that ignores both)
ChildKinds == [on_int : Reactions, on_term : Reactions, d_kind : {"none", "exit", "ignore"}]

NewChild(k) ==
    [state |-> "running", on_int |-> k.on_int, on_term |-> k.on_term,
     d_kind |-> k.d_kind, d_state |-> IF k.d_kind = "none" THEN "none" ELSE "running",
     lines |-> 0]

Reacts(c, sig) ==
    CASE sig = "SIGINT" -> c.on_int = "exit"
      [] sig = "SIGTERM" -> c.on_term = "exit"
      [] OTHER -> TRUE

DescReacts(c, sig) ==
    CASE sig \in {"SIGINT", "SIGTERM"} -> c.d_kind = "exit"
      [] OTHER -> TRUE

\* the signal delivered to the child itself
SignalChild(c, sig) ==
    IF c.state = "running" /\ Reacts(c, sig)
    THEN [c EXCEPT !.state = "zombie"]
    ELSE c

\* the signal delivered to the descendant
SignalDesc(c, sig) ==
    IF c.d_state = "running" /\ DescReacts(c, sig)
    THEN [c EXCEPT !.d_state = "dead"]
    ELSE c

\* os.killpg(pgid, sig): every process of the group gets the signal
killpg(c, sig) == SignalDesc(SignalChild(c, sig), sig)

\* Popen.wait / psutil wait on a child that has exited: it is reaped
Reap(c) == [c EXCEPT !.state = "reaped"]

\* __init__ assigns no self.output_thread: the attribute is missing until the
\* first start_main reaches line 282
Unset == -1

NoOp == [name |-> "none", pid |-> 0, noop |-> FALSE, notices |-> <<>>,
         signals |-> <<>>, tiers |-> <<>>, timeouts |-> 0, failed |-> FALSE,
         raised |-> FALSE, joined |-> 0, done |-> FALSE]

NewOp(name, pid) == [NoOp EXCEPT !.name = name, !.pid = pid]

StatusRunning(name) == <<"running:", name>>
StatusStopped == <<"stopped">>
StatusError(e) == <<"error:", e>>

\* self.current_app['name'] (line 47)
current_app_name == "main"

\* --------------------------------------------------------------- start_main
StartGuardNever(running) == FALSE

\* line 260: if self.is_running
StartGuard(running) == running

\* no thread was started for the child (start() raised, or was never reached)
NoRelay == [state |-> "none", relayed |-> 0, reads |-> 0]

RelayStepReads(r, running, handle) ==
    IF running /\ handle # 0
    THEN [r EXCEPT !.state = "reading", !.reads = handle]
    ELSE [r EXCEPT !.state = "ended"]

\* line 185, the first evaluation of the loop condition: `self.is_running and
\* self._process and ...` is False when is_running is False, and raises
\* AttributeError when it is True
RelayStep(r, running, handle) ==
    [r EXCEPT !.state = IF running THEN "crashed" ELSE "ended"]

\* threading.Thread(...).start() starts the thread or raises RuntimeError
ThreadStartOutcomes == {"started", "raises"}

\* lines 259-277. Already running: return. Otherwise Popen: when it raises, the
\* except clause (lines 286-289) sets is_running False and reports; when it
\* succeeds, the handle is assigned to self.process (line 277).
StartMain ==
    /\ sup_pc = "idle"
    /\ ops_left > 0
    /\ clean.pc = "none"
    /\ Len(procs) < MaxSpawns
    /\ ops_left' = ops_left - 1
    /\ UNCHANGED <<dvars, cvars, output_thread>>
    /\ IF StartGuard(is_running)
       THEN /\ op' = [NewOp("start_main", process) EXCEPT !.noop = TRUE, !.done = TRUE]
            /\ UNCHANGED <<is_running, process, relay, procs, sup_pc>>
       ELSE \E spawn \in {"spawned", "raises"}, p2 \in PublishOutcomes :
              IF spawn = "raises"
              THEN /\ is_running' = FALSE
                   /\ op' = [NewOp("start_main", 0) EXCEPT
                               !.notices = send_status(<<>>, StatusError("spawn"), p2),
                               !.failed = TRUE,
                               !.raised = (p2 = "raises"), !.done = TRUE]
                   /\ UNCHANGED <<process, relay, procs, sup_pc>>
              ELSE \E k \in ChildKinds :
                     /\ procs' = Append(procs, NewChild(k))
                     /\ relay' = Append(relay, NoRelay)
                     /\ process' = Len(procs) + 1
                     /\ op' = NewOp("start_main", Len(procs) + 1)
                     /\ sup_pc' = "started"
                     /\ UNCHANGED is_running

\* line 278: self.is_running = True, the statement after the assignment of the
\* handle
StartedRunning == TRUE

\* lines 278-289: is_running = True, the "running" notice, then the relay
\* thread; an exception of the publish or of the thread start sets is_running
\* False and is reported. Nothing in the except clause touches self.process or
\* the child; a thread whose start() raised is already assigned to
\* self.output_thread.
StartRun ==
    /\ sup_pc = "started"
    /\ \E p1, p2 \in PublishOutcomes, th \in ThreadStartOutcomes :
         LET pid == op.pid
             running == send_status(<<>>, StatusRunning(current_app_name), p1)
         IN  IF p1 = "sent" /\ th = "started"
             THEN /\ is_running' = StartedRunning
                  /\ output_thread' = pid
                  /\ relay' = [relay EXCEPT ![pid].state = "started"]
                  /\ op' = [op EXCEPT !.notices = running, !.done = TRUE]
             ELSE /\ is_running' = FALSE
                  /\ op' = [op EXCEPT
                              !.notices =
                                 send_status(running,
                                    StatusError(IF p1 = "sent" THEN "thread"
                                                              ELSE "publish"),
                                    p2),
                              !.failed = TRUE,
                              !.raised = (p2 = "raises"), !.done = TRUE]
                  /\ output_thread' = IF p1 = "sent" THEN pid ELSE output_thread
                  /\ UNCHANGED relay
    /\ sup_pc' = "idle"
    /\ UNCHANGED <<dvars, cvars, process, procs, ops_left>>

\* ------------------------------------------------------------ stream_output
\* line 185: the loop condition reads self._process, an attribute MqttService
\* never sets: with is_running True the thread ends on AttributeError before it
\* reads a line; with is_running False the condition is False and the loop ends.
RelayRun ==
    /\ \E i \in 1..Len(relay) :
         /\ relay[i].state = "started"
         /\ relay' = [relay EXCEPT ![i] = RelayStep(@, is_running, process)]
    /\ UNCHANGED <<dvars, cvars, is_running, process, output_thread, procs, sup_pc, op, ops_left>>

\* The child of a running supervisor writes a line to its stdout, the pipe
\* stream_output reads; MaxLines bounds the lines.
ChildWrites ==
    /\ is_running
    /\ process # 0
    /\ procs[process].state = "running"
    /\ procs[process].lines < MaxLines
    /\ procs' = [procs EXCEPT ![process].lines = @ + 1]
    /\ UNCHANGED <<dvars, cvars, is_running, process, output_thread, relay, sup_pc, op, ops_left>>

\* A child exits of its own accord.
ChildExits ==
    /\ \E i \in 1..Len(procs) :
         /\ procs[i].state = "running"
         /\ procs' = [procs EXCEPT ![i].state = "zombie"]
    /\ UNCHANGED <<dvars, cvars, is_running, process, output_thread, relay, sup_pc, op, ops_left>>

\* ---------------------------------------------------------------- stop_main
StopGuardNever(running, handle) == FALSE

\* line 293: if not self.is_running or not self.process
StopGuard(running, handle) == ~running \/ handle = 0

\* lines 292-299: not running: return; otherwise enter graceful_shutdown_unix
StopMain ==
    /\ sup_pc = "idle"
    /\ ops_left > 0
    /\ ops_left' = ops_left - 1
    /\ UNCHANGED <<dvars, cvars, is_running, process, output_thread, relay, procs>>
    /\ IF StopGuard(is_running, process)
       THEN /\ op' = [NewOp("stop_main", process) EXCEPT !.noop = TRUE, !.done = TRUE]
            /\ UNCHANGED sup_pc
       ELSE /\ op' = NewOp("stop_main", process)
            /\ sup_pc' = "sigint"

NextTierSkip(tier) == "tree_kill"

\* graceful_shutdown_unix: the step that follows a step whose wait timed out
NextTier(tier) ==
    CASE tier = "interrupt" -> "terminate"
      [] tier = "terminate" -> "tree_kill"

TierPc(tier) ==
    CASE tier = "terminate" -> "sigterm"
      [] tier = "tree_kill" -> "tree_children"

ExistsWhileRunning(c) == c.state = "running"

\* os.getpgid / os.killpg find the process: it has its pid until it is reaped
Exists(c) == c.state # "reaped"

\* lines 253-256: an exception of the try block that is neither TimeoutExpired
\* nor psutil.NoSuchProcess (os.getpgid and os.killpg raise ProcessLookupError)
\* is logged, and the fallback calls self._kill_process_tree, a name MqttService
\* does not define: AttributeError leaves graceful_shutdown_unix for the except
\* clause of stop_main
ShutdownFallback ==
    /\ op' = [op EXCEPT !.failed = TRUE]
    /\ sup_pc' = "notice"
    /\ UNCHANGED procs

\* lines 227-232: the process group of the child gets SIGINT
SupSigint ==
    /\ sup_pc = "sigint"
    /\ IF Exists(procs[process])
       THEN /\ procs' = [procs EXCEPT ![process] = killpg(@, "SIGINT")]
            /\ op' = [op EXCEPT !.tiers = Append(@, "interrupt"),
                                !.signals = Append(@, <<"SIGINT", "group">>)]
            /\ sup_pc' = "wait_int"
       ELSE ShutdownFallback
    /\ UNCHANGED <<dvars, cvars, is_running, process, output_thread, relay, ops_left>>

\* a wait with a timeout on the child: it returns once the child has exited
\* (reaping it), or raises TimeoutExpired and the next step is entered
SupWait(tier) ==
    IF procs[process].state # "running"
    THEN /\ procs' = [procs EXCEPT ![process] = Reap(@)]
         /\ sup_pc' = "notice"
         /\ UNCHANGED op
    ELSE /\ op' = [op EXCEPT !.timeouts = @ + 1]
         /\ sup_pc' = TierPc(NextTier(tier))
         /\ UNCHANGED procs

\* lines 233-237: self.process.wait(timeout=8)
SupWaitInt ==
    /\ sup_pc = "wait_int"
    /\ SupWait("interrupt")
    /\ UNCHANGED <<dvars, cvars, is_running, process, output_thread, relay, ops_left>>

\* line 241: the process group gets SIGTERM
SupSigterm ==
    /\ sup_pc = "sigterm"
    /\ IF Exists(procs[process])
       THEN /\ procs' = [procs EXCEPT ![process] = killpg(@, "SIGTERM")]
            /\ op' = [op EXCEPT !.tiers = Append(@, "terminate"),
                                !.signals = Append(@, <<"SIGTERM", "group">>)]
            /\ sup_pc' = "wait_term"
       ELSE ShutdownFallback
    /\ UNCHANGED <<dvars, cvars, is_running, process, output_thread, relay, ops_left>>

\* lines 242-246: self.process.wait(timeout=5)
SupWaitTerm ==
    /\ sup_pc = "wait_term"
    /\ SupWait("terminate")
    /\ UNCHANGED <<dvars, cvars, is_running, process, output_thread, relay, ops_left>>

\* kill_process_tree, lines 201-213: the descendants of a running parent get
\* terminate(); those still alive after wait_procs(timeout=3) get kill()
SupTreeChildren ==
    /\ sup_pc = "tree_children"
    /\ LET c == procs[process]
           has == c.state = "running" /\ c.d_state = "running"
           survives == has /\ ~DescReacts(c, "SIGTERM")
       IN  /\ procs' = [procs EXCEPT ![process].d_state = IF has THEN "dead" ELSE @]
           /\ op' = [op EXCEPT
                       !.tiers = Append(@, "tree_kill"),
                       !.signals = @ \o (IF has THEN <<<<"SIGTERM", "descendant">>>> ELSE <<>>)
                                     \o (IF survives THEN <<<<"SIGKILL", "descendant">>>> ELSE <<>>)]
    /\ sup_pc' = "tree_parent"
    /\ UNCHANGED <<dvars, cvars, is_running, process, output_thread, relay, ops_left>>

\* kill_process_tree, line 215: parent.terminate()
ParentSignal == "SIGTERM"

\* kill_process_tree, lines 214-222: the parent gets terminate() and is waited
\* for 3 seconds; the TimeoutExpired of a parent that stays alive is caught by
\* the except Exception clause and printed
SupTreeParent ==
    /\ sup_pc = "tree_parent"
    /\ LET c == SignalChild(procs[process], ParentSignal)
       IN  procs' = [procs EXCEPT ![process] = IF c.state # "running" THEN Reap(c) ELSE c]
    /\ op' = [op EXCEPT !.signals = IF Exists(procs[process])
                                    THEN Append(@, <<ParentSignal, "child">>) ELSE @]
    /\ sup_pc' = "notice"
    /\ UNCHANGED <<dvars, cvars, is_running, process, output_thread, relay, ops_left>>

\* stop_main lines 301-305: the "stopped" notice; a publish that raises is
\* caught and reported by another publish
SupNotice ==
    /\ sup_pc = "notice"
    /\ \E p1, p2 \in PublishOutcomes :
         op' = IF op.failed
               THEN [op EXCEPT !.notices = send_status(<<>>, StatusError("shutdown"), p2),
                               !.raised = (p2 = "raises")]
               ELSE [op EXCEPT
                       !.notices = IF p1 = "sent" THEN send_status(<<>>, StatusStopped, p1)
                                   ELSE send_status(<<>>, StatusError("publish"), p2),
                       !.failed = (p1 = "raises"),
                       !.raised = (p1 = "raises" /\ p2 = "raises")]
    /\ sup_pc' = "finally"
    /\ UNCHANGED <<dvars, cvars, is_running, process, output_thread, relay, procs, ops_left>>

FinallyHandleKept == process

\* line 308: self.process = None
FinallyHandle == 0

FinallyRunningKept == is_running

\* line 307: self.is_running = False
FinallyRunning == FALSE

\* stop_main lines 306-307: the finally block begins with is_running
SupFinally ==
    /\ sup_pc = "finally"
    /\ is_running' = FinallyRunning
    /\ sup_pc' = "finally_handle"
    /\ UNCHANGED <<dvars, cvars, process, output_thread, relay, procs, op, ops_left>>

\* stop_main lines 308-310: then the handle, then the join; join(timeout=1)
\* returns after at most a second whether the relay thread has ended or not
SupFinallyHandle ==
    /\ sup_pc = "finally_handle"
    /\ process' = FinallyHandle
    /\ op' = [op EXCEPT !.done = TRUE, !.joined = output_thread]
    /\ sup_pc' = "idle"
    /\ UNCHANGED <<dvars, cvars, is_running, output_thread, relay, procs, ops_left>>

StopSteps == SupSigint \/ SupWaitInt \/ SupSigterm \/ SupWaitTerm
               \/ SupTreeChildren \/ SupTreeParent \/ SupNotice \/ SupFinally
               \/ SupFinallyHandle

\* ------------------------------------------------------------------ cleanup
NoClean == [pc |-> "none", steps |-> <<>>, pending |-> <<>>, drained |-> FALSE,
            worker_exited |-> FALSE, calls |-> 0, closed |-> FALSE]

\* main (lines 353-379): the signal handler or an except clause calls cleanup()
\* and sys.exit(), and the finally clause calls cleanup() once more
CleanupCalls == 2

\* line 318: the first statement of cleanup() sets shutdown_event. A worker that
\* is not handling a command is either before the loop test or, having passed
\* it, inside get(timeout = 0.1). steps, pending, drained and worker_exited
\* describe the call in progress.
CleanupSignal ==
    /\ \/ clean.pc = "none" /\ sup_pc = "idle"
       \/ clean.pc = "complete" /\ clean.calls < CleanupCalls
    /\ shutdown_event' = TRUE
    /\ clean' = [NoClean EXCEPT !.pc = "wait_queue", !.steps = <<"signal">>,
                                !.pending = [i \in 1..Len(command_queue) |->
                                               command_queue[i].tag],
                                !.calls = clean.calls + 1,
                                !.closed = clean.closed]
    /\ \E w \in (IF pc["worker"] = "poll" /\ ~shutdown_event THEN {"poll", "get"}
                 ELSE {pc["worker"]}) :
         pc' = [pc EXCEPT !["worker"] = w]
    /\ UNCHANGED <<svars, git, command_queue, is_busy, command_lock, call, msg, sender,
                   transport, direct_left, enqueued, executed>>

\* lines 321-325: poll until the queue is empty or five seconds have passed
CleanupWaitQueue ==
    /\ clean.pc = "wait_queue"
    /\ clean' = [clean EXCEPT !.pc = "join", !.steps = Append(@, "wait_queue"),
                              !.drained = (command_queue = <<>>)]
    /\ UNCHANGED <<dvars, svars, shutdown_event, git>>

JoinWaitsForWorker(exited) == exited

\* line 329: join(timeout=3.0) returns whether or not the worker has exited
JoinReady(exited) == TRUE

\* lines 328-331: join the worker thread for at most three seconds
CleanupJoin ==
    /\ clean.pc = "join"
    /\ JoinReady(pc["worker"] = "exited")
    /\ clean' = [clean EXCEPT !.pc = "stop_child", !.steps = Append(@, "join"),
                              !.worker_exited = (pc["worker"] = "exited")]
    /\ UNCHANGED <<dvars, svars, shutdown_event, git>>

\* lines 335-336: if self.is_running: self.stop_main()
CleanupStopChild ==
    /\ clean.pc = "stop_child"
    /\ sup_pc = "idle"
    /\ IF is_running
       THEN /\ clean' = [clean EXCEPT !.pc = "in_stop", !.steps = Append(@, "stop_child")]
            /\ IF StopGuard(is_running, process)
               THEN /\ op' = [NewOp("stop_main", process) EXCEPT !.noop = TRUE,
                                                                  !.done = TRUE]
                    /\ UNCHANGED sup_pc
               ELSE /\ op' = NewOp("stop_main", process)
                    /\ sup_pc' = "sigint"
       ELSE /\ clean' = [clean EXCEPT !.pc = "close"]
            /\ UNCHANGED <<op, sup_pc>>
    /\ UNCHANGED <<dvars, shutdown_event, git, is_running, process, output_thread, relay,
                   procs, ops_left>>

\* stop_main has returned to cleanup
CleanupStopReturn ==
    /\ clean.pc = "in_stop"
    /\ sup_pc = "idle"
    /\ clean' = [clean EXCEPT !.pc = "close"]
    /\ UNCHANGED <<dvars, svars, shutdown_event, git>>

\* lines 337-343: loop_stop() joins the delivery thread, disconnect() closes the
\* connection: no message is delivered afterwards
CleanupClose ==
    /\ clean.pc = "close"
    /\ msg.pc \in {"idle", "dead"}
    /\ clean' = [clean EXCEPT !.pc = "complete", !.steps = Append(@, "close"),
                              !.closed = TRUE]
    /\ UNCHANGED <<dvars, svars, shutdown_event, git>>

CleanupSteps == CleanupSignal \/ CleanupWaitQueue \/ CleanupJoin \/ CleanupStopChild
                  \/ CleanupStopReturn \/ CleanupClose

\* ------------------------------------------------------------ specification
\* __init__ (lines 43-51) and init_command_queue (lines 111-117)
InitService ==
    /\ command_queue = <<>>
    /\ is_busy = FALSE
    /\ command_lock = "free"
    /\ pc = [t \in Threads |-> IF t = "worker" THEN "poll" ELSE "idle"]
    /\ call = [t \in Threads |-> NoCall]
    /\ msg = NoMsg
    /\ enqueued = <<>>
    /\ executed = <<>>
    /\ is_running = FALSE
    /\ process = 0
    /\ output_thread = Unset
    /\ relay = <<>>
    /\ procs = <<>>
    /\ sup_pc = "idle"
    /\ op = NoOp
    /\ shutdown_event = FALSE
    /\ clean = NoClean

Senders == {[commands |-> Commands, remaining |-> MaxMessages],
            [commands |-> BurstCommands, remaining |-> QUEUE_SOFT_LIMIT + BurstExtra]}

Init ==
    /\ InitService
    /\ sender \in Senders
    /\ transport = "accepts"
    /\ direct_left = 0
    /\ ops_left = 0
    /\ git = NoGit

Next == OnMessageReceive \/ OnMessagePut \/ WorkerGet \/ WorkerNext \/ ProcessCommand

Spec == Init /\ [][Next]_vars

\* The same service with a status topic client.publish may refuse.
InitFlaky ==
    /\ InitService
    /\ sender \in Senders
    /\ transport = "may_raise"
    /\ direct_left = 0
    /\ ops_left = 0
    /\ git = NoGit

SpecFlaky == InitFlaky /\ [][Next]_vars

\* The worker thread beside direct callers of process_command.
InitDirect ==
    /\ InitService
    /\ sender = [commands |-> Commands, remaining |-> MaxDirectMessages]
    /\ transport = "accepts"
    /\ direct_left = MaxDirectCalls
    /\ ops_left = 0
    /\ git = NoGit

NextDirect == Next \/ DirectCall \/ DirectReturn

SpecDirect == InitDirect /\ [][NextDirect]_vars

\* The supervisor driven through its public methods start_main and stop_main.
InitSupervisor ==
    /\ InitService
    /\ sender = [commands |-> Commands, remaining |-> 0]
    /\ transport = "accepts"
    /\ direct_left = 0
    /\ ops_left = MaxOps
    /\ git = NoGit

\* The service with a child started at some moment and cleanup() called at some
\* moment (a signal handler or the end of main).
InitCleanup ==
    /\ InitService
    /\ sender = [commands |-> BurstCommands, remaining |-> MaxCleanupMessages]
    /\ transport = "accepts"
    /\ direct_left = 0
    /\ ops_left = 1
    /\ git = NoGit

NextCleanup == Next \/ WorkerExit \/ CleanupSteps
                 \/ StartMain \/ StartRun \/ StopSteps

SpecCleanup == InitCleanup /\ [][NextCleanup]_vars

\* The service at the moment the shutdown begins, with a sender whose messages
\* are all the command that holds the worker longest, git_update
InitCleanupFair ==
    /\ InitService
    /\ sender = [commands |-> {"git_update"}, remaining |-> MaxCleanupMessages]
    /\ transport = "accepts"
    /\ direct_left = 0
    /\ ops_left = 1
    /\ git = NoGit

\* The steps of the main thread inside cleanup(), stop_main included
MainThread == CleanupSteps \/ StopSteps

\* The same runs when the main thread keeps being scheduled and the delivery
\* thread finishes the callback it is in: put(timeout=1.0) returns or times out.
SpecCleanupFair ==
    /\ InitCleanupFair
    /\ [][NextCleanup]_vars
    /\ WF_vars(MainThread)
    /\ WF_vars(OnMessagePut)

\* One call of GitService.update() with a callback, in every environment.
InitGit ==
    /\ InitService
    /\ sender = [commands |-> Commands, remaining |-> 0]
    /\ transport = "accepts"
    /\ direct_left = 0
    /\ ops_left = 0
    /\ git \in {[NoGit EXCEPT !.env = e] : e \in GitEnvs}

NextGit == GitCurrent \/ GitPull \/ GitNewCommit \/ GitCallback

SpecGit == InitGit /\ [][NextGit]_vars

NextSupervisor == StartMain \/ StartRun \/ StopMain \/ StopSteps \/ RelayRun \/ ChildExits
                    \/ ChildWrites

SpecSupervisor == InitSupervisor /\ [][NextSupervisor]_vars

\* ------------------------------------------------------------------ claims
IsPrefix(s, t) == Len(s) <= Len(t) /\ \A i \in 1..Len(s) : s[i] = t[i]

\* C1: the worker passes commands to process_command in exactly the order they
\* were enqueued: the executed tags are a prefix of the enqueued tags (no
\* reordering, no duplicate, none run before an earlier-enqueued one).
C1_Fifo == IsPrefix(executed, enqueued)

C1_Witness ==
    /\ Len(executed) >= 3
    /\ command_queue # <<>>
    /\ Len(enqueued) > Len(executed)

\* C2: when the worker's process_command call of a heavyweight command has
\* finished, by return or by exception, is_busy is FALSE and the call set it once
\* and cleared it exactly once.
C2_BusyCleared ==
    (pc["worker"] = "done" /\ call["worker"].command \in need_time_command)
        => /\ is_busy = FALSE
           /\ call["worker"].sets = 1
           /\ call["worker"].clears = 1

\* a heavyweight command whose handler raised has finished
C2_Witness ==
    /\ pc["worker"] = "done"
    /\ call["worker"].command \in need_time_command
    /\ call["worker"].handler = "git_update"
    /\ call["worker"].err = "caught"
    /\ call["worker"].clears = 1
    /\ is_busy = FALSE

\* C3: a process_command call that found is_busy TRUE at its gate is rejected
\* with the busy notice and runs no handler when its command is heavyweight, and
\* is not rejected (its handler branch runs) when its command is not.
C3_BusyGate ==
    \A t \in Threads :
        call[t].gate_busy =>
            IF call[t].command \in need_time_command
            THEN /\ call[t].rejected
                 /\ call[t].handler = "none"
                 /\ call[t].sets = 0
                 /\ call[t].notices = <<StatusBusyReject(call[t].command)>>
                 /\ pc[t] \in {"done", "poll", "idle"}
            ELSE /\ ~call[t].rejected
                 /\ pc[t] \in {"acquire", "mark", "dispatch", "except", "finally"}
                      \/ call[t].handler = "unknown"

\* a heavyweight command was handed over while is_busy was TRUE
C3_Witness ==
    \E t \in Threads :
        /\ call[t].gate_busy
        /\ call[t].command \in need_time_command
        /\ call[t].rejected
        /\ pc[t] = "done"

\* a non-heavyweight command handed over while is_busy was TRUE has run
C3_WitnessLight ==
    \E t \in Threads :
        /\ call[t].gate_busy
        /\ call[t].command = "ping"
        /\ call[t].handler = "unknown"
        /\ pc[t] = "done"

\* C4: no exception raised while a command is handled leaves process_command:
\* every finished call has returned.
C4_NoPropagation ==
    \A t \in Threads : pc[t] = "done" => call[t].result = "returned"

\* C5: a command received while the queue holds at least QUEUE_SOFT_LIMIT
\* entries gets the rejection notice through the status publisher, is not queued
\* and is never executed.
C5_Rejection ==
    msg.outcome = "rejected"
        => /\ msg.notices = <<StatusQueueFull>>
           /\ \A i \in 1..Len(enqueued) : enqueued[i] # msg.tag
           /\ \A i \in 1..Len(executed) : executed[i] # msg.tag

\* the part of C5 the code keeps: the rejected command is neither queued nor run
C5_Dropped ==
    msg.outcome = "rejected"
        => /\ \A i \in 1..Len(enqueued) : enqueued[i] # msg.tag
           /\ \A i \in 1..Len(executed) : executed[i] # msg.tag

Tiers == <<"interrupt", "terminate", "tree_kill">>

\* C7: start_main called while is_running is TRUE is a no-op: no child is
\* spawned, nothing is published, and is_running, process and the relay thread
\* are as before.
C7_StartNoop ==
    [][(StartMain /\ is_running)
         => /\ op'.notices = <<>>
            /\ UNCHANGED <<is_running, process, output_thread, relay, procs>>]_vars

\* start_main has been called on a running supervisor
C7_Witness ==
    /\ op.name = "start_main"
    /\ op.noop
    /\ is_running
    /\ process # 0
    /\ Len(procs) = 1

\* C8: stop_main called while is_running is FALSE is a no-op: no signal is
\* sent, nothing is published, and is_running and process are as before.
C8_StopNoop ==
    [][(StopMain /\ ~is_running)
         => /\ op'.notices = <<>>
            /\ op'.signals = <<>>
            /\ sup_pc' = "idle"
            /\ UNCHANGED <<is_running, process, procs>>]_vars

\* stop_main has been called on a stopped supervisor, after a start and a stop
C8_Witness ==
    /\ op.name = "stop_main"
    /\ op.noop
    /\ ~is_running
    /\ Len(procs) = 1

\* C9: during stop the escalation steps are entered in the order interrupt,
\* terminate, tree kill, each once, and each after the first only when the wait of
\* the step before it timed out; a stop whose interrupt wait timed out and whose
\* terminate wait did not has sent exactly SIGINT then SIGTERM and ends with the
\* "stopped" notice.
C9_Escalation ==
    op.name = "stop_main"
        => /\ IsPrefix(op.tiers, Tiers)
           /\ Len(op.tiers) <= op.timeouts + 1
           /\ op.timeouts <= Len(op.tiers)
           /\ (op.done /\ ~op.noop /\ op.timeouts = 1)
                => /\ op.signals = << <<"SIGINT", "group">>, <<"SIGTERM", "group">> >>
                   /\ op.notices = <<StatusStopped>>

\* a child that ignores SIGINT and exits on SIGTERM has been stopped
C9_Witness ==
    /\ op.name = "stop_main"
    /\ op.done
    /\ op.timeouts = 1
    /\ op.tiers = <<"interrupt", "terminate">>
    /\ procs[op.pid].on_int = "ignore"
    /\ procs[op.pid].on_term = "exit"
    /\ procs[op.pid].state = "reaped"
    /\ op.notices = <<StatusStopped>>

\* C10: once stop_main has returned, the child it stopped and the child's
\* descendant are no longer alive; a stop in which both waits timed out went
\* through all three steps and ended with SIGKILL for the child.
C10_ForcedKill ==
    (op.name = "stop_main" /\ op.done /\ ~op.noop)
        => /\ procs[op.pid].state # "running"
           /\ procs[op.pid].d_state # "running"
           /\ op.timeouts = 2
                => /\ op.tiers = Tiers
                   /\ op.signals[Len(op.signals)] = <<"SIGKILL", "child">>

\* C11: once stop_main, called on a running supervisor, has returned, is_running
\* is FALSE, the process handle is cleared, exactly the "stopped" notice has been
\* published and the relay thread of the stopped child has been joined; the join
\* in the finally block never blocks the stop.
C11_Stopped ==
    /\ (op.name = "stop_main" /\ op.done /\ ~op.noop)
         => /\ ~is_running
            /\ process = 0
            /\ op.notices = <<StatusStopped>>
            /\ op.joined = op.pid
    /\ sup_pc = "finally_handle" => ENABLED SupFinallyHandle

\* a stop that went through all three steps has returned
C11_Witness ==
    /\ op.name = "stop_main"
    /\ op.done
    /\ ~op.noop
    /\ op.tiers = Tiers
    /\ ~is_running
    /\ process = 0
    /\ op.joined = op.pid

C13_FailureLeavesStopped ==
    (op.done /\ op.failed)
        => /\ ~is_running
           /\ op.notices # <<>>
           /\ Head(op.notices[Len(op.notices)]) = "error:"
           /\ (op.name = "start_main" /\ op.pid # 0) => procs[op.pid].state # "running"
           /\ op.name = "stop_main" => process = 0

\* C20: while the supervisor is running a child whose stream is open, a line the
\* child has written and the relay has not yet republished finds the relay thread
\* of that child still in its loop, and the relay never republishes more than was
\* written.
C20_Relay ==
    /\ \A i \in 1..Len(relay) : relay[i].relayed <= procs[i].lines
    /\ (/\ is_running
        /\ process # 0
        /\ procs[process].state = "running"
        /\ procs[process].lines > relay[process].relayed)
         => relay[process].state = "started"

\* C14: a publish that fails inside send_status does not change what its caller
\* does next: every command that passed the busy gate reaches its handler, and
\* no call of process_command ends in its except clause or with an exception
\* because of a publish.
C14_FireAndForget ==
    \A t \in Threads :
        /\ call[t].err \notin {"publish", "pending"}
        /\ (pc[t] = "done" /\ ~call[t].rejected) => call[t].handler # "none"

\* C17: a start command that process_command has handled while the supervisor
\* was stopped leaves it running a spawned child, and a stop command handled
\* while it was running leaves it stopped.
C17_StartStopPerformed ==
    \A t \in Threads :
        (pc[t] = "done" /\ ~call[t].rejected /\ call[t].result = "returned")
            => /\ call[t].command = "start_main" => (is_running /\ process # 0)
               /\ call[t].command = "stop_main" => ~is_running

\* C18: the notices of a finished update command depend on the result update()
\* returned: a failed result has its error text in a notice, two updates of which
\* one found new commits and the other did not have different notices, and no
\* result starts or stops the child.
C18_UpdateStatus ==
    /\ \A t \in Threads :
         (pc[t] = "done" /\ call[t].handler = "git_update" /\ call[t].err = "none")
            => /\ ~call[t].git.success
                    => \E i \in 1..Len(call[t].notices) :
                         \E j \in 1..Len(call[t].notices[i]) :
                            call[t].notices[i][j] = call[t].git.error
               /\ ~is_running /\ process = 0
    /\ \A t1, t2 \in Threads :
         (/\ pc[t1] = "done" /\ pc[t2] = "done"
          /\ call[t1].handler = "git_update" /\ call[t2].handler = "git_update"
          /\ call[t1].command = call[t2].command
          /\ call[t1].git.success /\ call[t2].git.success
          /\ call[t1].git.has_update # call[t2].git.has_update)
            => call[t1].notices # call[t2].notices

\* "stopped", or a first fragment that is one of the category prefixes
HasCategory(status) ==
    \/ status = <<"stopped">>
    \/ Head(status) \in {"busy:", "error:", "running:"}

\* C19: every status published, by on_message, by process_command or by
\* start_main and stop_main, is "stopped" or begins with "busy:", "error:" or
\* "running:".
C19_Category ==
    /\ \A t \in Threads :
         \A i \in 1..Len(call[t].notices) : HasCategory(call[t].notices[i])
    /\ \A i \in 1..Len(msg.notices) : HasCategory(msg.notices[i])
    /\ \A i \in 1..Len(op.notices) : HasCategory(op.notices[i])

\* C15: while shutdown_event is not set the worker loop has not exited, whatever
\* the commands before did; a worker that has finished a command goes back to
\* the loop, and at the loop with a command queued it takes the command.
C15_WorkerAlive ==
    /\ ~shutdown_event => pc["worker"] # "exited"
    /\ pc["worker"] = "done" => ENABLED WorkerNext
    /\ (~shutdown_event /\ pc["worker"] = "poll" /\ command_queue # <<>>)
         => ENABLED WorkerGet

\* after an update whose handler raised, the worker is back at the loop with the
\* next command queued
C15_Witness ==
    /\ ~shutdown_event
    /\ pc["worker"] = "poll"
    /\ call["worker"].handler = "git_update"
    /\ call["worker"].err = "caught"
    /\ command_queue # <<>>
    /\ ENABLED WorkerGet

\* the order of cleanup the claim C16 states
CleanupOrder == <<"wait_queue", "signal", "join", "stop_child", "close">>

\* C16: cleanup waits for the queue to empty before it sets shutdown_event, then
\* stops the child, then closes the transport; unless the wait timed out, the
\* commands that were queued when cleanup began have been taken by the worker
\* by the time shutdown_event is set.
C16_DrainBeforeSignal ==
    /\ \A i \in 1..Len(clean.steps) :
         \A j \in 1..Len(clean.steps) :
            (i < j) =>
              \E a, b \in 1..Len(CleanupOrder) :
                 /\ a < b
                 /\ CleanupOrder[a] = clean.steps[i]
                 /\ CleanupOrder[b] = clean.steps[j]
    /\ (shutdown_event /\ clean.drained)
         => \A i \in 1..Len(clean.pending) :
               \E j \in 1..Len(executed) : executed[j] = clean.pending[i]

\* the notices of a heavyweight command c that passed the busy gate
NoticesOf(c, raised) ==
    IF raised
    THEN <<StatusBusyProcessing(c), StatusProcessError(c, "handler"), StatusCompleted(c)>>
    ELSE <<StatusBusyProcessing(c), StatusCompleted(c)>>

\* C21: a heavyweight command that passed the busy gate has published the
\* "busy:Processing" notice and nothing else when its handler runs, and when the
\* call has ended its notices are that notice, the error notice if and only if
\* the handler raised, and the completion notice naming the command, once; a
\* command that is not heavyweight publishes nothing.
C21_NoticeOrder ==
    \A t \in Threads :
        LET c == call[t].command
        IN  /\ (pc[t] = "dispatch" /\ c \in need_time_command)
                 => call[t].notices = <<StatusBusyProcessing(c)>>
            /\ (pc[t] = "done" /\ ~call[t].rejected /\ c \in need_time_command)
                 => call[t].notices = NoticesOf(c, call[t].err = "caught")
            /\ (c \notin need_time_command) => call[t].notices = <<>>

\* an update whose handler raised has ended with its three notices
C21_Witness ==
    /\ pc["worker"] = "done"
    /\ call["worker"].command = "git_update"
    /\ call["worker"].err = "caught"
    /\ call["worker"].notices = NoticesOf("git_update", TRUE)

\* an unknown command has ended without a notice
C21_WitnessLight ==
    /\ pc["worker"] = "done"
    /\ call["worker"].command = "ping"
    /\ call["worker"].handler = "unknown"
    /\ call["worker"].notices = <<>>

\* C22: every step that changes is_busy, to TRUE or to FALSE, is a step of the
\* worker thread taken while the worker holds command_lock.
C22_BusyUnderLock ==
    [][(is_busy' # is_busy)
         => /\ command_lock = "worker"
            /\ pc'["worker"] # pc["worker"]]_vars

C25_QueueBound ==
    /\ Len(command_queue) <= QUEUE_SOFT_LIMIT
    /\ Len(command_queue) < QUEUE_MAXSIZE
    /\ msg.outcome # "timeout"
    /\ msg.pc = "put" => Len(command_queue) < QUEUE_SOFT_LIMIT

\* the queue holds QUEUE_SOFT_LIMIT entries and the next message has been rejected
C25_Witness ==
    /\ Len(command_queue) = QUEUE_SOFT_LIMIT
    /\ msg.outcome = "rejected"

\* C26: with the worker as the only caller, is_busy is FALSE whenever
\* process_command is entered and is TRUE only from the set inside the lock to
\* the clear in the finally block of the same call; no call finds the busy gate
\* closed, so none is rejected with the busy notice.
C26_NeverBusyAtEntry ==
    /\ pc["worker"] \in {"poll", "gate", "acquire", "mark", "done"} => ~is_busy
    /\ is_busy => /\ call["worker"].command \in need_time_command
                  /\ call["worker"].sets = 1
                  /\ call["worker"].clears = 0
    /\ ~call["worker"].gate_busy
    /\ ~call["worker"].rejected
    /\ \A i \in 1..Len(call["worker"].notices) :
         call["worker"].notices[i] # StatusBusyReject(call["worker"].command)

\* the worker enters process_command with a heavyweight command after it has
\* finished another command
C26_Witness ==
    /\ pc["worker"] = "gate"
    /\ call["worker"].command \in need_time_command
    /\ Len(executed) >= 2
    /\ ~is_busy

\* C27: whenever is_running is TRUE the process handle is set, also between
\* the two assignments of start_main and between the two of stop_main's finally
\* block.
C27_RunningHasHandle ==
    is_running => (process # 0 /\ process \in 1..Len(procs))

\* stop_main has cleared is_running and not yet the handle
C27_Witness ==
    /\ sup_pc = "finally_handle"
    /\ ~is_running
    /\ process # 0
    /\ op.name = "stop_main"

\* start_main has assigned the handle and not yet set is_running
C27_WitnessStart ==
    /\ sup_pc = "started"
    /\ ~is_running
    /\ process = Len(procs)
    /\ op.name = "start_main"

\* C28: whatever the git commands and the callback did, the result update()
\* returns has has_update only with success and different commits, a failure
\* has no has_update and a non-empty error, a success has an empty error; the
\* callback is called at most once and only for a success, what it raises is
\* caught, and the result returned is the one built before the callback.
C28_UpdateResult ==
    /\ git.callbacks <= 1
    /\ git.caught <= git.callbacks
    /\ git.callbacks = 1 => (git.result.success /\ git.env.callback # "none")
    /\ git.pc = "returned"
         => /\ git.result.has_update
                 => (git.result.success
                       /\ git.result.old_commit # git.result.new_commit)
            /\ ~git.result.success
                 => (~git.result.has_update /\ git.result.error # "")
            /\ git.result.success => git.result.error = ""
            /\ (git.result.success /\ git.env.callback # "none") => git.callbacks = 1
            /\ git.result = GitUpdate(git.env.cur_commit, git.env.pull_success,
                                      git.env.new_commit)

\* an update that found new commits has returned after its callback raised
C28_Witness ==
    /\ git.pc = "returned"
    /\ git.env.callback = "raises"
    /\ git.caught = 1
    /\ git.result.success
    /\ git.result.has_update
    /\ git.result.old_commit = "c1"
    /\ git.result.new_commit = "c2"
====
